---------------------------- MODULE Spec2Model ----------------------------
(***************************************************************************)
(* Model of the terrain core of Treasure-Hunt: PerlinMap (engine/perlin.rs) *)
(* with its normalize, erode and continuous-coordinate queries.            *)
(*                                                                         *)
(* f32 values are held in fixed point.  Three scales are used:             *)
(*   PU  units per 1.0 for grid coordinates and offsets (x, y),            *)
(*   HU  units per 1.0 for heights, sediment and height changes,           *)
(*   VU  units per 1.0 for velocities, normals, speed and erosion_ease.    *)
(* NaN is a value of its own, propagated by every arithmetic operation and *)
(* false in every comparison, as in IEEE 754.                              *)
(***************************************************************************)
EXTENDS Integers, Sequences, FiniteSets, TLC

\* ------------------------------------------------------------------------
\* Fixed-point scales and f32 special values
\* ------------------------------------------------------------------------
PU == 2^4
VU == 10 * 10
HU == PU * 640

NaN == -(2^30)
Inf == 2^29
F32_MAX == 2^28
F32_MIN == -(2^28)

Abs(x) == IF x < 0 THEN -x ELSE x

\* n / d rounded to the nearest integer (d > 0)
Round(n, d) == (n + (d \div 2)) \div d

IsNaN(x) == x = NaN

IsFinite(x) == x # NaN /\ x # Inf /\ x # -Inf

\* The spacing of f32 values around x (x in HU units): a 24-bit significand
\* gives 2^-10 for magnitudes in [8192, 16384) and 2^-11 in [4096, 8192);
\* below that the spacing is finer than one model unit.
Ulp(x) ==
  IF Abs(x) >= 8192 * HU THEN HU \div 1024
  ELSE IF Abs(x) >= 4096 * HU THEN HU \div 2048
  ELSE 1

\* Rounding of an exact result to the nearest representable f32
Fl(x) == Round(x, Ulp(x)) * Ulp(x)

FAdd(a, b) == IF IsNaN(a) \/ IsNaN(b) THEN NaN ELSE Fl(a + b)

FSub(a, b) == IF IsNaN(a) \/ IsNaN(b) THEN NaN ELSE Fl(a - b)

\* Product of two values of which one is a coordinate (PU units per 1.0)
FMul(a, b) == IF IsNaN(a) \/ IsNaN(b) THEN NaN ELSE Fl(Round(a * b, PU))

\* Comparisons: false when an operand is NaN
FLt(a, b) == ~IsNaN(a) /\ ~IsNaN(b) /\ a < b

FLe(a, b) == ~IsNaN(a) /\ ~IsNaN(b) /\ a <= b

FGt(a, b) == ~IsNaN(a) /\ ~IsNaN(b) /\ a > b

FGe(a, b) == ~IsNaN(a) /\ ~IsNaN(b) /\ a >= b

\* f32::floor of a coordinate
FFloor(x) == IF IsNaN(x) THEN NaN ELSE (x \div PU) * PU

\* `f as usize` of a whole coordinate: the cast saturates, NaN becomes 0
AsUsize(x) == IF IsNaN(x) \/ x < 0 THEN 0 ELSE x \div PU

\* f32 as i32 of a whole number of coordinate units: NaN becomes 0
AsI32(x) == IF IsNaN(x) THEN 0 ELSE x \div PU

\* i32 as usize: a negative number wraps to a number above every grid index
UsizeWrapped == 2^30

I32AsUsize(n) == IF n < 0 THEN UsizeWrapped + n ELSE n

\* f32::min / f32::max: a NaN operand is ignored
F32Min(a, b) == IF IsNaN(a) THEN b ELSE IF IsNaN(b) THEN a ELSE IF a < b THEN a ELSE b

F32Max(a, b) == IF IsNaN(a) THEN b ELSE IF IsNaN(b) THEN a ELSE IF a > b THEN a ELSE b

RECURSIVE SqrtIter(_, _, _)
SqrtIter(n, lo, hi) ==
  IF lo >= hi THEN lo
  ELSE LET mid == (lo + hi + 1) \div 2
       IN  IF mid * mid <= n THEN SqrtIter(n, mid, hi) ELSE SqrtIter(n, lo, mid - 1)

\* sqrt rounded to the nearest integer
ISqrt(n) ==
  LET r == SqrtIter(n, 0, 46340)
  IN  IF n - r * r > r THEN r + 1 ELSE r

\* ------------------------------------------------------------------------
\* Vectors (nalgebra_glm): tuples of f32
\* ------------------------------------------------------------------------
VSub(a, b) == <<FSub(a[1], b[1]), FSub(a[2], b[2]), FSub(a[3], b[3])>>

VAdd(a, b) == <<FAdd(a[1], b[1]), FAdd(a[2], b[2]), FAdd(a[3], b[3])>>

VScale(t, a) == <<FMul(t, a[1]), FMul(t, a[2]), FMul(t, a[3])>>

Dot(a, b) == FAdd(FAdd(FMul(a[1], b[1]), FMul(a[2], b[2])), FMul(a[3], b[3]))

Cross(a, b) ==
  << FSub(FMul(a[2], b[3]), FMul(a[3], b[2])),
     FSub(FMul(a[3], b[1]), FMul(a[1], b[3])),
     FSub(FMul(a[1], b[2]), FMul(a[2], b[1])) >>

\* ------------------------------------------------------------------------
\* intersect: ray / triangle intersection (Moller-Trumbore)
\* ------------------------------------------------------------------------
None == [some |-> FALSE, point |-> <<0, 0, 0>>, t |-> 0]

Some(p, t) == [some |-> TRUE, point |-> p, t |-> t]

Intersect(v0, v1, v2, ray_origin, ray_direction) ==
  LET edge1 == VSub(v1, v0)
      edge2 == VSub(v2, v0)
      h == Cross(ray_direction, edge2)
      a == Dot(edge1, h)
      \* EPSILON = 1e-7 is below one model unit: |a| < EPSILON is a = 0
      f == IF IsNaN(a) THEN NaN ELSE Round(PU * PU, Abs(a)) * (IF a < 0 THEN -1 ELSE 1)
      s == VSub(ray_origin, v0)
      u == FMul(f, Dot(s, h))
      q == Cross(s, edge1)
      v == FMul(f, Dot(ray_direction, q))
      t == FMul(f, Dot(edge2, q))
  IN  IF a = 0 THEN None
      ELSE IF FLt(u, 0) \/ FGt(u, PU) THEN None
      ELSE IF FLt(v, 0) \/ FGt(FAdd(u, v), PU) THEN None
      ELSE Some(VAdd(ray_origin, VScale(t, ray_direction)), t)

\* tri_normal: the unit normal of a triangle, in VU units.  The cross product
\* has its x and y in height units and its z in coordinate units; z is brought
\* to height units before the vector is normalized.
TriNormal(v0, v1, v2) ==
  LET edge1 == VSub(v1, v0)
      edge2 == VSub(v2, v0)
      c == Cross(edge1, edge2)
      cz == IF IsNaN(c[3]) THEN NaN ELSE c[3] * (HU \div PU)
      nan == IsNaN(c[1]) \/ IsNaN(c[2]) \/ IsNaN(cz)
      norm == IF nan THEN NaN ELSE ISqrt(c[1] * c[1] + c[2] * c[2] + cz * cz)
  IN  IF nan THEN <<NaN, NaN, NaN>>
      ELSE <<Round(c[1] * VU, norm), Round(c[2] * VU, norm), Round(cz * VU, norm)>>

\* ------------------------------------------------------------------------
\* PerlinMap queries.  A call returns [panic, val]: panic is "none" when the
\* call returns val, otherwise the reason the call panicked.
\* ------------------------------------------------------------------------
Ret(v) == [panic |-> "none", val |-> v]

Panic(why) == [panic |-> why, val |-> <<>>]

\* PerlinMap::get_z
GetZ(d, w, x, y) == IF x >= w \/ y >= w THEN 0 ELSE d[x + y * w]

\* The height of the ray origin above the grid (10000.0)
RayHeight == 10000 * HU

\* The triangle of the cell of (x, y) that the offset selects: its three
\* corners as get_z_interpolated and get_normal build them.
Triangle(d, w, x, y) ==
  LET x_origin == FFloor(x)
      y_origin == FFloor(y)
      x_offset == FSub(x, x_origin)
      y_offset == FSub(y, y_origin)
      xu == AsUsize(x_origin)
      yu == AsUsize(y_origin)
  IN  IF FLe(y_offset, FSub(PU, x_offset))
      THEN \* In bottom triangle
           << <<x_origin, y_origin, GetZ(d, w, xu, yu)>>,
              <<FAdd(x_origin, PU), y_origin, GetZ(d, w, xu + 1, yu)>>,
              <<x_origin, FAdd(y_origin, PU), GetZ(d, w, xu, yu + 1)>> >>
      ELSE \* In top triangle
           << <<FAdd(x_origin, PU), y_origin, GetZ(d, w, xu + 1, yu)>>,
              <<FAdd(x_origin, PU), FAdd(y_origin, PU), GetZ(d, w, xu + 1, yu + 1)>>,
              <<x_origin, FAdd(y_origin, PU), GetZ(d, w, xu, yu + 1)>> >>

\* PerlinMap::get_z_interpolated
GetZInterpolated(d, w, x, y) ==
  IF IsNaN(x) THEN Panic("assert")
  ELSE LET tri == Triangle(d, w, x, y)
           hit == Intersect(tri[1], tri[2], tri[3], <<x, y, RayHeight>>, <<0, 0, -PU>>)
       IN  IF hit.some THEN Ret(hit.point[3]) ELSE Panic("unwrap")

\* PerlinMap::get_normal
GetNormal(d, w, x, y) ==
  IF IsNaN(x) THEN Panic("assert")
  ELSE LET tri == Triangle(d, w, x, y)
       IN  Ret(TriNormal(tri[1], tri[2], tri[3]))

\* PerlinMap::get_dot_prod: dot(normal, (0, 0, 1))
GetDotProd(d, w, x, y) ==
  IF IsNaN(x) THEN Panic("assert")
  ELSE LET n == GetNormal(d, w, x, y)
       IN  IF n.panic # "none" THEN n
           ELSE IF IsNaN(n.val[1]) \/ IsNaN(n.val[2]) \/ IsNaN(n.val[3]) THEN Ret(NaN)
           ELSE Ret(n.val[3])

\* ------------------------------------------------------------------------
\* PerlinMap::normalize
\* ------------------------------------------------------------------------
\* f32 division of two heights: 0/0 is NaN, x/0 is an infinity
FDivH(a, b) ==
  IF IsNaN(a) \/ IsNaN(b) THEN NaN
  ELSE IF b = 0 THEN (IF a = 0 THEN NaN ELSE IF a > 0 THEN Inf ELSE -Inf)
  ELSE IF b > 0 THEN Round(a * HU, b)
  ELSE Round((-a) * HU, -b)

\* The first loop: min and max over data[lo .. hi], the fold of f32::min and
\* f32::max from f32::MAX and f32::MIN (evaluated by halves: both are
\* associative and commutative)
RECURSIVE MinOver(_, _, _)
MinOver(d, lo, hi) ==
  IF lo > hi THEN F32_MAX
  ELSE IF lo = hi THEN F32Min(d[lo], F32_MAX)
  ELSE LET mid == (lo + hi) \div 2
           left == MinOver(d, lo, mid)
           right == MinOver(d, mid + 1, hi)
       IN  F32Min(left, right)

RECURSIVE MaxOver(_, _, _)
MaxOver(d, lo, hi) ==
  IF lo > hi THEN F32_MIN
  ELSE IF lo = hi THEN F32Max(d[lo], F32_MIN)
  ELSE LET mid == (lo + hi) \div 2
           left == MaxOver(d, lo, mid)
           right == MaxOver(d, mid + 1, hi)
       IN  F32Max(left, right)

\* The second loop: stretch to min/max
\* A rescaling that divides by the maximum instead of the range
StretchByMax(x, min, max) == FDivH(FSub(x, min), max)

Stretch(x, min, max) == FDivH(FSub(x, min), FSub(max, min))

Normalize(d, w) ==
  LET min == MinOver(d, 0, w * w - 1)
      max == MaxOver(d, 0, w * w - 1)
  IN  [i \in 0 .. (w * w - 1) |-> Stretch(d[i], min, max)]

\* ------------------------------------------------------------------------
\* PerlinMap::erode: constants and helpers
\* ------------------------------------------------------------------------
gravity == 50

\* 1.0, in height units and in velocity units
sediment_capacity_factor == HU

max_sediment_capacity == 10 * HU

bulk_influence == VU

\* erosion_ease for steepness k/100, k = 0 .. 100:
\*   1 / (steepness^0.1 + 1)^0.1 - 0.5^0.1 * steepness, in hundredths
EaseTable ==
  << 100, 94, 93, 92, 91, 90, 89, 88, 87, 86, 85, 84, 83, 82, 81, 80, 79, 78,
     77, 76, 75, 74, 73, 73, 72, 71, 70, 69, 68, 67, 66, 65, 64, 63, 62, 61,
     60, 59, 58, 57, 56, 55, 55, 54, 53, 52, 51, 50, 49, 48, 47, 46, 45, 44,
     43, 42, 41, 40, 39, 38, 38, 37, 36, 35, 34, 33, 32, 31, 30, 29, 28, 27,
     26, 25, 24, 23, 23, 22, 21, 20, 19, 18, 17, 16, 15, 14, 13, 12, 11, 10,
     9, 8, 8, 7, 6, 5, 4, 3, 2, 1, 0 >>

ErosionEase(steepness) ==
  IF IsNaN(steepness) THEN NaN
  ELSE EaseTable[(IF steepness > VU THEN VU ELSE steepness) + 1]

\* nalgebra_glm::length of a 2-vector
Length2(v) == IF IsNaN(v[1]) \/ IsNaN(v[2]) THEN NaN ELSE ISqrt(v[1] * v[1] + v[2] * v[2])

\* (self.map_size as f32 * intensity) as usize, intensity = num / IntensityDen
IntensityDen == 2^2

\* A particle count that is one too many (a loop over 0 ..= total)
TotalInclusive(w, num) == (w * num) \div IntensityDen + 1

Total(w, num) == (w * num) \div IntensityDen

\* rand::rngs::StdRng: a deterministic generator, a function of its seed.
\* A linear congruential generator stands for it.
RngMod == 2^10

SeedFromU64(seed) == (seed * 389 + 77) % RngMod

RngNext(r) == (r * 421 + 1) % RngMod

\* gen_range(0.0 .. map_size as f32): uniform in [0, map_size), in PU units
GenRange(r, w) == (r * w * PU) \div RngMod

\* The bounds guard of the step loop
\* A guard that is off by one: it lets the last index it should stop through
BoundaryGuardOffByOne(idx, w) == idx > w * w - w - 1

BoundaryGuard(idx, w) == idx >= w * w - w - 1

\* The four indices get_influence and incr_influence use
Corners(idx, w) == {idx, idx + 1, idx + w, idx + 1 + w}

\* One bilinear term: amt * wx * wy with the weights in PU units
Weighted(amt, wx, wy) == IF IsNaN(amt) THEN NaN ELSE Round(amt * wx * wy, PU * PU)

\* get_influence, for a map of f32
GetInfluence(map, w, idx, offset) ==
  FAdd(FAdd(FAdd(Weighted(map[idx], PU - offset[1], PU - offset[2]),
                 Weighted(map[idx + 1], offset[1], PU - offset[2])),
            Weighted(map[idx + w], PU - offset[1], offset[2])),
       Weighted(map[idx + 1 + w], offset[1], offset[2]))

\* get_influence, for a map of Vec2
GetInfluence2(map, w, idx, offset) ==
  << GetInfluence([k \in DOMAIN map |-> map[k][1]], w, idx, offset),
     GetInfluence([k \in DOMAIN map |-> map[k][2]], w, idx, offset) >>

\* incr_influence, for a map of f32
IncrInfluence(map, w, idx, offset, amt) ==
  [map EXCEPT
     ![idx] = FAdd(@, Weighted(amt, PU - offset[1], PU - offset[2])),
     ![idx + 1] = FAdd(@, Weighted(amt, offset[1], PU - offset[2])),
     ![idx + w] = FAdd(@, Weighted(amt, PU - offset[1], offset[2])),
     ![idx + 1 + w] = FAdd(@, Weighted(amt, offset[1], offset[2]))]

\* incr_influence, for a map of Vec2
IncrInfluence2(map, w, idx, offset, amt) ==
  LET xs == IncrInfluence([k \in DOMAIN map |-> map[k][1]], w, idx, offset, amt[1])
      ys == IncrInfluence([k \in DOMAIN map |-> map[k][2]], w, idx, offset, amt[2])
  IN  [k \in DOMAIN map |-> <<xs[k], ys[k]>>]

\* 0.01, in velocity units
deposit_speed == VU \div 100

erode_speed == VU \div 100

\* f32 division by erosion_ease (velocity units): x / 0 is NaN or an infinity
FDivEase(a, ease) ==
  IF IsNaN(a) \/ IsNaN(ease) THEN NaN
  ELSE IF ease = 0 THEN (IF a = 0 THEN NaN ELSE IF a > 0 THEN Inf ELSE -Inf)
  ELSE Round(a, ease)

\* The droplet's sediment capacity
SedimentCapacity == F32Min(sediment_capacity_factor, max_sediment_capacity)

\* A height change that erodes without the erode_speed factor
DeltaZUnscaled(sediment, delta_height, speed, erosion_ease) ==
  IF FGt(sediment, SedimentCapacity) \/ FGt(delta_height, 0)
  THEN F32Min(sediment, Round(delta_height * 2, 10))
  ELSE -(Round((IF speed < 0 THEN 0 ELSE IF speed > VU THEN VU ELSE speed)
               * erosion_ease * HU, VU * VU))

\* The height change of one step (lines 128-138)
DeltaZ(sediment, delta_height, speed, erosion_ease) ==
  IF FGt(sediment, SedimentCapacity) \/ FGt(delta_height, 0)
  THEN LET excess == IF sediment - SedimentCapacity > 0
                     THEN sediment - SedimentCapacity ELSE 0
           deposit_amount == FDivEase(excess * deposit_speed, erosion_ease)
       IN  IF FGt(delta_height, 0)
           THEN F32Min(sediment, Round(delta_height * 2, 10))
           ELSE deposit_amount
  ELSE LET clamped == IF speed < 0 THEN 0 ELSE IF speed > VU THEN VU ELSE speed
       IN  -(Round(clamped * erosion_ease * erode_speed * HU, VU * VU * VU))

\* vel *= erosion_ease; vel += gravity * grad.xy()
Accelerate(v, grad, erosion_ease) ==
  << Round(v[1] * erosion_ease, VU) + gravity * grad[1],
     Round(v[2] * erosion_ease, VU) + gravity * grad[2] >>

\* v / length, a 2-vector in velocity units
Scaled(v, length) == <<Round(v[1] * VU, length), Round(v[2] * VU, length)>>

\* vel /= if length(vel) > 0.0 { length(vel) } else { 1.0 }
UnitOrSame(v) == IF Length2(v) > 0 THEN Scaled(v, Length2(v)) ELSE v

\* vel += erosion_ease * bulk_influence * influence
AddInfluence(v, erosion_ease, influence) ==
  << v[1] + Round(Round(erosion_ease * bulk_influence, VU) * influence[1], VU),
     v[2] + Round(Round(erosion_ease * bulk_influence, VU) * influence[2], VU) >>

\* dir = vel / speed: 0 / 0 is NaN
Direction(v, speed) ==
  IF IsNaN(speed) \/ speed = 0 THEN <<NaN, NaN>> ELSE Scaled(v, speed)

\* pos += dir
Advance(p, dir) ==
  IF IsNaN(dir[1]) \/ IsNaN(dir[2]) THEN <<NaN, NaN>>
  ELSE <<p[1] + Round(dir[1] * PU, VU), p[2] + Round(dir[2] * PU, VU)>>

\* The test that ends the particle when it has left the interior of the map
OutOfMap(p, w) ==
  \/ FLe(p[1], 0) \/ FGe(p[1], (w - 1) * PU)
  \/ FLe(p[2], 0) \/ FGe(p[2], (w - 1) * PU)

\* total_sediment_changed = 0.1 * speed.abs() / erosion_ease
TotalSedimentChanged(speed, erosion_ease) == FDivEase((VU \div 10) * Abs(speed), erosion_ease)

\* One pass through the body of the step loop (lines 83-149), in the order of
\* the code.  The pass is a record c: the maps, the particle (pos, vel,
\* sediment), what the pass has pushed (vel_cmds, map_cmds), the indices it
\* used, and its outcome: "run" while the body is running, then "guard" (break
\* at line 88), "oob" (break at line 118), "moved" (the body ran to its end)
\* or "panic" with the reason in panic.
PassStart(d, vm, mm, w, p, v, sed) ==
  [d |-> d, vm |-> vm, w |-> w, outcome |-> "run", panic |-> "none",
   pos |-> p, vel |-> v, sediment |-> sed, vel_cmds |-> <<>>, map_cmds |-> <<>>,
   moist |-> mm, used |-> {}, idx |-> 0, offset |-> <<0, 0>>, old_height |-> 0,
   grad |-> <<0, 0, 0>>, erosion_ease |-> 0, speed |-> 0, start |-> p]

Panicked(c, why) == [c EXCEPT !.outcome = "panic", !.panic = why]

\* Lines 83-89: node, droplet_index, cell_offset and the bounds guard
StepLocate(c) ==
  LET droplet_index == I32AsUsize(AsI32(FFloor(c.pos[1])) + AsI32(FFloor(c.pos[2])) * c.w)
  IN  IF BoundaryGuard(droplet_index, c.w)
      THEN [c EXCEPT !.outcome = "guard"]
      ELSE [c EXCEPT !.idx = droplet_index,
                     !.offset = <<c.pos[1] - FFloor(c.pos[1]), c.pos[2] - FFloor(c.pos[2])>>]

\* Lines 91-96: old_height, grad, steepness and erosion_ease
Sensed(c, old_height, grad) ==
  IF old_height.panic # "none" THEN Panicked(c, old_height.panic)
  ELSE [c EXCEPT !.old_height = old_height.val,
                 !.grad = grad.val,
                 !.erosion_ease = ErosionEase(Length2(<<grad.val[1], grad.val[2]>>))]

StepSense(c) ==
  IF c.outcome # "run" THEN c
  ELSE Sensed(c, GetZInterpolated(c.d, c.w, c.pos[1], c.pos[2]),
              GetNormal(c.d, c.w, c.pos[1], c.pos[2]))

\* Lines 97-108: the velocity, the recorded velocity-map change, the influence
\* of the velocity map (which indexes it) and the speed
Steered(c, v) ==
  LET cmd == [idx |-> c.idx, offset |-> c.offset, amt |-> v]
  IN  IF c.idx + 1 + c.w >= c.w * c.w
      THEN \* get_influence indexes past the end of vel_map
           [c EXCEPT !.outcome = "panic", !.panic = "index", !.vel = v,
                     !.vel_cmds = <<cmd>>, !.used = Corners(c.idx, c.w)]
      ELSE [c EXCEPT !.vel = IF IsNaN(c.erosion_ease) THEN <<NaN, NaN>>
                            ELSE AddInfluence(v, c.erosion_ease,
                                              GetInfluence2(c.vm, c.w, c.idx, c.offset)),
                     !.vel_cmds = <<cmd>>,
                     !.used = Corners(c.idx, c.w)]

StepSteer(c) ==
  IF c.outcome # "run" THEN c
  ELSE IF IsNaN(c.erosion_ease) THEN Steered(c, <<NaN, NaN>>)
  ELSE Steered(c, UnitOrSame(Accelerate(c.vel, c.grad, c.erosion_ease)))

\* A move that never ends the particle at the edge of the map
MovedNoBreak(c, speed, new_pos) == [c EXCEPT !.pos = new_pos, !.speed = speed]

\* Lines 107-119: dir, the move and the test that the particle is in the map
Moved(c, speed, new_pos) ==
  IF OutOfMap(new_pos, c.w)
  THEN [c EXCEPT !.outcome = "oob", !.pos = new_pos, !.speed = speed]
  ELSE [c EXCEPT !.pos = new_pos, !.speed = speed]

StepMove(c) ==
  IF c.outcome # "run" THEN c
  ELSE Moved(c, Length2(c.vel), Advance(c.pos, Direction(c.vel, Length2(c.vel))))

\* A pass that records its height change without taking it from the sediment
DepositedKeepingSediment(c, new_height, delta_z) ==
  [c EXCEPT !.outcome = "moved",
            !.map_cmds = <<[idx |-> c.idx, offset |-> c.offset, amt |-> delta_z]>>,
            !.moist = IncrInfluence(c.moist, c.w, c.idx, c.offset,
                                    TotalSedimentChanged(c.speed, c.erosion_ease))]

\* Lines 120-149: new_height, delta_z, the sediment, the recorded height
\* change and the flow map
Deposited(c, new_height, delta_z) ==
  [c EXCEPT !.outcome = "moved",
            !.sediment = FSub(c.sediment, delta_z),
            !.map_cmds = <<[idx |-> c.idx, offset |-> c.offset, amt |-> delta_z]>>,
            !.moist = IncrInfluence(c.moist, c.w, c.idx, c.offset,
                                    TotalSedimentChanged(c.speed, c.erosion_ease))]

Measured(c, new_height) ==
  IF new_height.panic # "none" THEN Panicked(c, new_height.panic)
  ELSE Deposited(c, new_height.val,
                 DeltaZ(c.sediment, FSub(new_height.val, c.old_height), c.speed,
                        c.erosion_ease))

StepDeposit(c) ==
  IF c.outcome # "run" THEN c
  ELSE Measured(c, GetZInterpolated(c.d, c.w, c.pos[1], c.pos[2]))

ParticleStep(d, vm, mm, w, p, v, sed) ==
  StepDeposit(StepMove(StepSteer(StepSense(StepLocate(PassStart(d, vm, mm, w, p, v, sed))))))

\* ------------------------------------------------------------------------
\* Noise: perlin2d, noise2d, noise2, smooth_inter, lin_inter
\*
\* A noise coordinate is the pair (n, e) that stands for the f32 n * 2^e: the
\* grid coordinate n times a frequency 2^e, doubled at every octave.  The
\* value of one octave is held in units of 1/1024 and the accumulated sum in
\* units of 2^-19, both exact.  Wild stands for a result far outside [0, 1]
\* (a number of magnitude above 2^90, an infinity or NaN).
\* ------------------------------------------------------------------------
HASH ==
  << 208, 34, 231, 213, 32, 248, 233, 56, 161, 78, 24, 140, 71, 48, 140, 254,
     245, 255, 247, 247, 40, 185, 248, 251, 245, 28, 124, 204, 204, 76, 36, 1,
     107, 28, 234, 163, 202, 224, 245, 128, 167, 204, 9, 92, 217, 54, 239, 174,
     173, 102, 193, 189, 190, 121, 100, 108, 167, 44, 43, 77, 180, 204, 8, 81,
     70, 223, 11, 38, 24, 254, 210, 210, 177, 32, 81, 195, 243, 125, 8, 169,
     112, 32, 97, 53, 195, 13, 203, 9, 47, 104, 125, 117, 114, 124, 165, 203,
     181, 235, 193, 206, 70, 180, 174, 0, 167, 181, 41, 164, 30, 116, 127, 198,
     245, 146, 87, 224, 149, 206, 57, 4, 192, 210, 65, 210, 129, 240, 178, 105,
     228, 108, 245, 148, 140, 40, 35, 195, 38, 58, 65, 207, 215, 253, 65, 85,
     208, 76, 62, 3, 237, 55, 89, 232, 50, 217, 64, 244, 157, 199, 121, 252,
     90, 17, 212, 203, 149, 152, 140, 187, 234, 177, 73, 174, 193, 100, 192, 143,
     97, 53, 145, 135, 19, 103, 13, 90, 135, 151, 199, 91, 239, 247, 33, 39,
     145, 101, 120, 99, 3, 186, 86, 99, 41, 237, 203, 111, 79, 220, 135, 158,
     42, 30, 154, 120, 67, 87, 167, 135, 176, 183, 191, 253, 115, 184, 21, 233,
     58, 129, 233, 142, 39, 128, 211, 118, 137, 139, 255, 114, 20, 218, 113, 154,
     27, 127, 246, 250, 1, 8, 198, 250, 209, 92, 222, 173, 21, 88, 102, 219 >>

I32_MAX == (2^30 - 1) * 2 + 1

I32_MIN == -I32_MAX - 1

\* a + b in i32: over tells that the sum is outside i32, val is the sum
\* wrapped to 32 bits
AddI32(a, b) ==
  IF b > 0 /\ a > I32_MAX - b
  THEN [over |-> TRUE, val |-> (a - I32_MAX - 1) + (b - I32_MAX - 1)]
  ELSE IF b < 0 /\ a < I32_MIN - b
  THEN [over |-> TRUE, val |-> (a + I32_MAX + 1) + (b + I32_MAX + 1)]
  ELSE [over |-> FALSE, val |-> a + b]

\* (n % 256).abs(), with the remainder of Rust (sign of the dividend)
AbsRem256(n) == IF n >= 0 THEN n % 256 ELSE (256 - (n % 256)) % 256

\* noise2: the hashed value of a lattice point, and whether an addition
\* overflowed
Hashed(sum1, sum2) == [over |-> sum1.over \/ sum2.over, val |-> HASH[AbsRem256(sum2.val) + 1]]

Noise2Inner(x, sum1) == Hashed(sum1, AddI32(HASH[AbsRem256(sum1.val) + 1], x))

Noise2(x, y, seed) == Noise2Inner(x, AddI32(y, seed))

\* n * 2^e >= 2^31: the f32 is past the largest i32
Saturates(n, e) == n > 0 /\ e >= 1 /\ (e >= 31 \/ n >= 2^(31 - e))

\* f32 as i32 (saturating)
CoordAsI32(n, e) ==
  IF Saturates(n, e) THEN I32_MAX
  ELSE IF n = 0 THEN 0
  ELSE IF e >= 0 THEN n * 2^e
  ELSE n \div 2^(-e)

\* A fractional part far above 1
HugeFrac == 2^20

\* x - (x_int as f32), in quarters: I32_MAX as f32 is 2^31
CoordFrac(n, e) ==
  IF Saturates(n, e)
  THEN (IF e <= 31 /\ n = 2^(31 - e) THEN 0 ELSE HugeFrac)
  ELSE IF e >= 0 THEN 0
  ELSE ((n % 2^(-e)) * 4) \div 2^(-e)

Wild == 2^29 + 2^20

\* s * s * (3.0 - 2.0 * s) for s in quarters, in units of 1/32
SmoothWeight(q) == q * q * (6 - q)

\* smooth_inter(a, b, s): a + w * (b - a), in units 32 times finer than those
\* of a and b.  With a huge s the weight is a huge negative number: the result
\* is a when b = a and far out of range otherwise.
SmoothInter(a, b, q) ==
  IF a = Wild THEN Wild
  ELSE IF q = HugeFrac THEN (IF b = a THEN 32 * a ELSE Wild)
  ELSE IF q = 0 THEN 32 * a
  ELSE IF b = Wild THEN Wild
  ELSE 32 * a + SmoothWeight(q) * (b - a)

\* noise2d from its four hashed corners
Noise2dOf(s, t, u, v, xq, yq) ==
  [over |-> s.over \/ t.over \/ u.over \/ v.over,
   val |-> SmoothInter(SmoothInter(s.val, t.val, xq), SmoothInter(u.val, v.val, xq), yq)]

Noise2dAt(x_int, y_int, x1, y1, xq, yq, seed) ==
  LET n == Noise2dOf(Noise2(x_int, y_int, seed), Noise2(x1.val, y_int, seed),
                     Noise2(x_int, y1.val, seed), Noise2(x1.val, y1.val, seed), xq, yq)
  IN  [over |-> n.over \/ x1.over \/ y1.over, val |-> n.val]

\* noise2d at the coordinates (xn * 2^e, yn * 2^e)
Noise2d(xn, yn, e, seed) ==
  Noise2dAt(CoordAsI32(xn, e), CoordAsI32(yn, e),
            AddI32(CoordAsI32(xn, e), 1), AddI32(CoordAsI32(yn, e), 1),
            CoordFrac(xn, e), CoordFrac(yn, e), seed)

Depth == 10

\* fin += noise2d(xa, ya, seed) * amp, in units of 2^-19
Accumulate(acc, n, k) ==
  [over |-> acc.over \/ n.over,
   fin |-> IF acc.fin = Wild \/ n.val = Wild THEN Wild ELSE acc.fin + n.val * 2^(Depth - 1 - k)]

\* The loop of perlin2d over the octaves k .. Depth - 1
RECURSIVE Octaves(_, _, _, _, _, _)
Octaves(acc, xn, yn, e, seed, k) ==
  IF k = Depth THEN acc
  ELSE Octaves(Accumulate(acc, Noise2d(xn, yn, e + k, seed), k), xn, yn, e, seed, k + 1)

\* fin / div, as a height: div is 256 * (2 - 2^-9)
FinOverDiv(acc) ==
  [over |-> acc.over,
   val |-> IF acc.fin = Wild THEN Wild
           ELSE Round(acc.fin * (HU \div 2^11), (2^Depth - 1) * 2^7)]

\* perlin2d(x, y, freq, 10, seed) for a frequency that is 0 or 2^exp
Perlin2d(x, y, freq, seed) ==
  IF freq.zero
  THEN FinOverDiv(Octaves([over |-> FALSE, fin |-> 0], 0, 0, 0, seed, 0))
  ELSE FinOverDiv(Octaves([over |-> FALSE, fin |-> 0], x, y, freq.exp, seed, 0))

\* ------------------------------------------------------------------------
\* Bounds of the model and the inputs it enumerates
\* ------------------------------------------------------------------------
MaxWidth == 8
MaxSeed == 5
MaxIntensity == 2
MaxNormalize == 2

Widths == 2 .. MaxWidth

Seeds == 0 .. MaxSeed

\* intensity = num / IntensityDen
Intensities == 0 .. MaxIntensity

\* Height grids a PerlinMap can hold (data is a pub field, written by callers):
\* a constant grid, a tilted plane, a pyramid island, a rough grid, a plane
\* that descends below zero towards its last column, and a gentle plain that
\* rises by 1/128 per cell.
Terrains == {"flat", "ramp", "cone", "rough", "trench", "plain"}

TerrainHeight(kind, x, y, w) ==
  CASE kind = "flat" -> HU \div 2
    [] kind = "ramp" -> ((3 * x + y) * HU) \div (4 * (w - 1))
    [] kind = "cone" -> HU - ((Abs(2 * x - (w - 1)) + Abs(2 * y - (w - 1))) * HU) \div (2 * (w - 1))
    [] kind = "rough" -> (((x * 73 + y * 151 + x * y * 29 + 7) % 97) * HU) \div 97
    [] kind = "trench" -> ((w - 2 - x) * HU) \div (2 * w)
    [] kind = "plain" -> HU \div 4 + x * (HU \div 128)

Terrain(kind, w) == [k \in 0 .. (w * w - 1) |-> TerrainHeight(kind, k % w, k \div w, w)]

\* Coordinates handed to the queries: NaN, a negative one, two inside the
\* grid, a whole one, one in the last row/column and one past it
QueryCoords(w) ==
  {NaN, -(PU \div 2), PU \div 4, PU, PU + (3 * PU) \div 4,
   (w - 1) * PU + PU \div 2, w * PU + PU \div 2}

\* ------------------------------------------------------------------------
\* State
\* ------------------------------------------------------------------------
VARIABLES
  map_size,      \* PerlinMap.map_size
  data,          \* PerlinMap.data
  pc,            \* "idle", or the position inside erode, or "panicked"
  total,         \* erode: number of particles
  i,             \* erode: index of the current particle
  rng,           \* erode: state of the generator
  pos,           \* erode: position of the particle
  vel,           \* erode: velocity of the particle
  sediment,      \* erode: sediment carried by the particle
  age,           \* erode: passes made through the step loop
  map_cmds,      \* erode: recorded height changes
  vel_map,       \* erode: velocity map
  moist_map,     \* erode: flow map
  vel_map_cmds,  \* erode: recorded velocity-map changes
  ret,           \* what the last call returned
  call,          \* the last call that mutates the map, prev the one before
  prev,
  pre,           \* data when the last mutating call began
  n_norm,        \* number of normalize calls made
  run,           \* number of erode calls completed
  args,          \* arguments of the erode call
  first,         \* the result of the first erode call
  outcome,       \* how the step loop of the last particle ended
  used,          \* indices into the maps used by the last step or apply
  applied,       \* the last height change applied and the cells it changed
  world,         \* Island: the entities and resources of the specs World
  attempts       \* Island::new: attempts of the running placement loop

vars ==
  << map_size, data, pc, total, i, rng, pos, vel, sediment, age, map_cmds,
     vel_map, moist_map, vel_map_cmds, ret, call, prev, pre, n_norm, run,
     args, first, outcome, used, applied, world, attempts >>

\* The state of the Island scene
scene == <<world, attempts>>

\* A world with nothing in it
NoWorld ==
  [trees |-> 0, mobs |-> 0, positions |-> <<>>, treasure_maps |-> <<>>,
   quads |-> <<>>, camera |-> <<0, 0, 0>>, velocity |-> <<0, 0>>]

erode_locals ==
  << total, i, rng, pos, vel, sediment, age, map_cmds, vel_map, moist_map,
     vel_map_cmds >>

NoRet == [op |-> "none", x |-> 0, y |-> 0, panic |-> "none", val |-> <<>>]

NoApplied == [idx |-> 0, offset |-> <<0, 0>>, amt |-> 0, changed |-> {}]

\* A map that is one cell short of the grid
ZerosShort(w) == [k \in 0 .. (w * w - 2) |-> 0]

Zeros(w) == [k \in 0 .. (w * w - 1) |-> 0]

Zeros2(w) == [k \in 0 .. (w * w - 1) |-> <<0, 0>>]

Init ==
  /\ map_size \in Widths
  /\ \E kind \in Terrains : data = Terrain(kind, map_size)
  /\ pc = "idle"
  /\ total = 0 /\ i = 0 /\ rng = 0
  /\ pos = <<0, 0>> /\ vel = <<0, 0>> /\ sediment = 0 /\ age = 0
  /\ map_cmds = <<>> /\ vel_map_cmds = <<>>
  /\ vel_map = <<>> /\ moist_map = <<>>
  /\ ret = NoRet
  /\ call = "new" /\ prev = "none"
  /\ pre = data
  /\ n_norm = 0 /\ run = 0
  /\ args = [intensity |-> 0, seed |-> 0]
  /\ first = [data |-> <<>>, flow |-> <<>>]
  /\ outcome = "none"
  /\ used = {}
  /\ applied = NoApplied
  /\ world = NoWorld /\ attempts = 0

\* ------------------------------------------------------------------------
\* Calls that run in one step: normalize and the queries
\* ------------------------------------------------------------------------
NormalizeCall ==
  /\ pc = "idle"
  /\ n_norm < MaxNormalize
  /\ data' = Normalize(data, map_size)
  /\ pre' = data
  /\ prev' = call
  /\ call' = "normalize"
  /\ n_norm' = n_norm + 1
  /\ ret' = NoRet
  /\ UNCHANGED <<map_size, pc, erode_locals, run, args, first, outcome, used, applied>>
  /\ UNCHANGED scene

Query(op, r, x, y) ==
  /\ pc = "idle"
  /\ run = 0
  /\ ret.op = "none"
  /\ ret' = [op |-> op, x |-> x, y |-> y, panic |-> r.panic, val |-> r.val]
  /\ pc' = IF r.panic = "none" THEN "idle" ELSE "panicked"
  /\ UNCHANGED <<map_size, data, erode_locals, call, prev, pre, n_norm, run,
                 args, first, outcome, used, applied>>
  /\ UNCHANGED scene

GetZInterpolatedCall ==
  \E x \in QueryCoords(map_size), y \in QueryCoords(map_size) :
    Query("get_z_interpolated", GetZInterpolated(data, map_size, x, y), x, y)

GetNormalCall ==
  \E x \in QueryCoords(map_size), y \in QueryCoords(map_size) :
    Query("get_normal", GetNormal(data, map_size, x, y), x, y)

GetDotProdCall ==
  \E x \in QueryCoords(map_size), y \in QueryCoords(map_size) :
    Query("get_dot_prod", GetDotProd(data, map_size, x, y), x, y)

\* ------------------------------------------------------------------------
\* PerlinMap::erode, one action per step of its loops
\* ------------------------------------------------------------------------
\* A generator that starts from a state of its own choosing, whatever the seed
RngFromCalls(seed) == SeedFromU64(seed + run + 1)

\* Line 64: the generator of one erode call, seeded from the seed argument
SeededRng(seed) == SeedFromU64(seed)

\* Lines 46-67: the locals, the maps and the generator
StartErode(intensity, seed) ==
  /\ total' = Total(map_size, intensity)
  /\ i' = 0
  /\ rng' = SeededRng(seed)
  /\ map_cmds' = <<>>
  /\ vel_map_cmds' = <<>>
  /\ vel_map' = Zeros2(map_size)
  /\ moist_map' = Zeros(map_size)
  /\ pos' = <<0, 0>> /\ vel' = <<0, 0>> /\ sediment' = 0 /\ age' = 0
  /\ args' = [intensity |-> intensity, seed |-> seed]
  /\ pc' = "particle"
  /\ ret' = NoRet
  /\ outcome' = "none"
  /\ used' = {}
  /\ applied' = NoApplied

\* The first call of erode
ErodeBegin ==
  /\ pc = "idle"
  /\ run = 0
  /\ \E intensity \in Intensities, seed \in Seeds : StartErode(intensity, seed)
  /\ pre' = data
  /\ prev' = call
  /\ call' = "erode"
  /\ UNCHANGED <<map_size, data, n_norm, run, first>>
  /\ UNCHANGED scene

\* A second call of erode, on a map with the grid contents the first call
\* began with, and with the first call's arguments
ErodeAgain ==
  /\ pc = "idle"
  /\ run = 1
  /\ call = "erode"
  /\ data' = pre
  /\ StartErode(args.intensity, args.seed)
  /\ UNCHANGED <<map_size, call, prev, pre, n_norm, run, first>>
  /\ UNCHANGED scene

\* A spawn that draws once more when the particle before it left the map
SpawnDrawingByOutcome ==
  /\ pc = "particle"
  /\ i < total
  /\ LET r1 == RngNext(IF outcome = "oob" THEN RngNext(rng) ELSE rng)
         r2 == RngNext(r1)
     IN  /\ pos' = <<GenRange(r1, map_size), GenRange(r2, map_size)>>
         /\ rng' = r2
  /\ vel' = <<0, 0>>
  /\ sediment' = 0
  /\ age' = 0
  /\ IF map_size \div 4 = 0
     THEN pc' = "apply" /\ outcome' = "limit"
     ELSE pc' = "step" /\ outcome' = "none"
  /\ used' = {}
  /\ UNCHANGED <<map_size, data, total, i, map_cmds, vel_map, moist_map,
                 vel_map_cmds, ret, call, prev, pre, n_norm, run, args, first,
                 applied>>
  /\ UNCHANGED scene

\* Lines 68-81: the next particle is spawned
Spawn ==
  /\ pc = "particle"
  /\ i < total
  /\ LET r1 == RngNext(rng)
         r2 == RngNext(r1)
     IN  /\ pos' = <<GenRange(r1, map_size), GenRange(r2, map_size)>>
         /\ rng' = r2
  /\ vel' = <<0, 0>>
  /\ sediment' = 0
  /\ age' = 0
  /\ IF map_size \div 4 = 0
     THEN pc' = "apply" /\ outcome' = "limit"
     ELSE pc' = "step" /\ outcome' = "none"
  /\ used' = {}
  /\ UNCHANGED <<map_size, data, total, i, map_cmds, vel_map, moist_map,
                 vel_map_cmds, ret, call, prev, pre, n_norm, run, args, first,
                 applied>>
  /\ UNCHANGED scene

\* Lines 82-150: one pass through the body of the step loop
StepTaken(s) ==
  /\ pos' = s.pos
  /\ vel' = s.vel
  /\ sediment' = s.sediment
  /\ vel_map_cmds' = vel_map_cmds \o s.vel_cmds
  /\ map_cmds' = map_cmds \o s.map_cmds
  /\ moist_map' = s.moist
  /\ used' = s.used
  /\ age' = IF s.outcome = "moved" THEN age + 1 ELSE age
  /\ outcome' = IF s.outcome = "moved"
                THEN (IF age + 1 = map_size \div 4 THEN "limit" ELSE "none")
                ELSE s.outcome
  /\ pc' = IF s.outcome = "panic" THEN "panicked"
           ELSE IF s.outcome = "moved" /\ age + 1 < map_size \div 4 THEN "step"
           ELSE "apply"
  /\ ret' = IF s.outcome = "panic"
            THEN [op |-> "erode", x |-> 0, y |-> 0, panic |-> s.panic, val |-> <<>>]
            ELSE ret

\* The grid with the height change of a pass applied at once
AppliedAtOnce(d, w, cmds) ==
  IF cmds = <<>> THEN d
  ELSE IncrInfluence(d, w, cmds[1].idx, cmds[1].offset, cmds[1].amt)

\* A pass that writes its height change to the grid as well as recording it
StepApplying ==
  /\ pc = "step"
  /\ StepTaken(ParticleStep(data, vel_map, moist_map, map_size, pos, vel, sediment))
  /\ data' = AppliedAtOnce(data, map_size,
                           ParticleStep(data, vel_map, moist_map, map_size, pos, vel,
                                        sediment).map_cmds)
  /\ UNCHANGED <<map_size, total, i, rng, vel_map, call, prev, pre,
                 n_norm, run, args, first, applied>>
  /\ UNCHANGED scene

Step ==
  /\ pc = "step"
  /\ StepTaken(ParticleStep(data, vel_map, moist_map, map_size, pos, vel, sediment))
  /\ UNCHANGED <<map_size, data, total, i, rng, vel_map, call, prev, pre,
                 n_norm, run, args, first, applied>>
  /\ UNCHANGED scene

\* The cells of m that differ from n
Changed(m, n) == {k \in DOMAIN m : m[k] # n[k]}

\* Lines 153-157: one recorded height change is popped and applied
ApplyMapCmd ==
  /\ pc = "apply"
  /\ Len(map_cmds) > 0
  /\ LET c == map_cmds[Len(map_cmds)]
         d == IncrInfluence(data, map_size, c.idx, c.offset, c.amt)
     IN  /\ data' = d
         /\ applied' = [idx |-> c.idx, offset |-> c.offset, amt |-> c.amt,
                        changed |-> Changed(d, data)]
         /\ used' = Corners(c.idx, map_size)
  /\ map_cmds' = SubSeq(map_cmds, 1, Len(map_cmds) - 1)
  /\ UNCHANGED <<map_size, pc, total, i, rng, pos, vel, sediment, age, vel_map,
                 moist_map, vel_map_cmds, ret, call, prev, pre, n_norm, run,
                 args, first, outcome>>
  /\ UNCHANGED scene

\* Lines 158-162: one recorded velocity-map change is popped and applied
ApplyVelCmd ==
  /\ pc = "apply"
  /\ Len(map_cmds) = 0
  /\ Len(vel_map_cmds) > 0
  /\ LET c == vel_map_cmds[Len(vel_map_cmds)]
     IN  /\ vel_map' = IncrInfluence2(vel_map, map_size, c.idx, c.offset, c.amt)
         /\ used' = Corners(c.idx, map_size)
  /\ vel_map_cmds' = SubSeq(vel_map_cmds, 1, Len(vel_map_cmds) - 1)
  /\ UNCHANGED <<map_size, data, pc, total, i, rng, pos, vel, sediment, age,
                 map_cmds, moist_map, ret, call, prev, pre, n_norm, run, args,
                 first, outcome, applied>>
  /\ UNCHANGED scene

\* A particle loop that goes on without applying what is recorded
EndParticleUnapplied ==
  /\ pc = "apply"
  /\ i' = i + 1
  /\ pc' = "particle"
  /\ UNCHANGED <<map_size, data, total, rng, pos, vel, sediment, age, map_cmds,
                 vel_map, moist_map, vel_map_cmds, ret, call, prev, pre, n_norm,
                 run, args, first, outcome, used, applied>>
  /\ UNCHANGED scene

\* Line 164: the particle is done, the outer loop goes on
EndParticle ==
  /\ pc = "apply"
  /\ Len(map_cmds) = 0
  /\ Len(vel_map_cmds) = 0
  /\ i' = i + 1
  /\ pc' = "particle"
  /\ UNCHANGED <<map_size, data, total, rng, pos, vel, sediment, age, map_cmds,
                 vel_map, moist_map, vel_map_cmds, ret, call, prev, pre, n_norm,
                 run, args, first, outcome, used, applied>>
  /\ UNCHANGED scene

\* Lines 165-166: erode returns moist_map
ErodeReturn ==
  /\ pc = "particle"
  /\ i >= total
  /\ pc' = "idle"
  /\ ret' = [op |-> "erode", x |-> 0, y |-> 0, panic |-> "none", val |-> moist_map]
  /\ run' = run + 1
  /\ first' = IF run = 0 THEN [data |-> data, flow |-> moist_map] ELSE first
  /\ UNCHANGED <<map_size, data, total, i, rng, pos, vel, sediment, age,
                 map_cmds, vel_map, moist_map, vel_map_cmds, call, prev, pre,
                 n_norm, args, outcome, used, applied>>
  /\ UNCHANGED scene

Next ==
  \/ NormalizeCall
  \/ GetZInterpolatedCall
  \/ GetNormalCall
  \/ GetDotProdCall
  \/ ErodeBegin
  \/ ErodeAgain
  \/ Spawn
  \/ Step
  \/ ApplyMapCmd
  \/ ApplyVelCmd
  \/ EndParticle
  \/ ErodeReturn

Spec == Init /\ [][Next]_vars

\* ------------------------------------------------------------------------
\* PerlinMap::new, one action per cell
\* ------------------------------------------------------------------------
MaxNoiseWidth == 4

NoiseWidths == 2 .. MaxNoiseWidth

\* Frequencies handed to new: 0 and powers of two, small and large
FreqExps == {-2, -1, 0, 5, 22, 27}

Frequencies ==
  {[zero |-> TRUE, exp |-> 0]} \cup {[zero |-> FALSE, exp |-> e] : e \in FreqExps}

\* Seeds handed to new
NoiseSeeds == {0, 7, -3, I32_MAX, I32_MIN}

\* Lines 33-36: data is resized to map_size * map_size cells of 0.0
NewInit ==
  /\ map_size \in NoiseWidths
  /\ data = Zeros(map_size)
  /\ pc = "new"
  /\ args \in [frequency : Frequencies, seed : NoiseSeeds]
  /\ total = 0 /\ i = 0 /\ rng = 0
  /\ pos = <<0, 0>> /\ vel = <<0, 0>> /\ sediment = 0 /\ age = 0
  /\ map_cmds = <<>> /\ vel_map_cmds = <<>>
  /\ vel_map = <<>> /\ moist_map = <<>>
  /\ ret = NoRet
  /\ call = "new" /\ prev = "none"
  /\ pre = data
  /\ n_norm = 0 /\ run = 0
  /\ first = [data |-> <<>>, flow |-> <<>>]
  /\ outcome = "none"
  /\ used = {}
  /\ applied = NoApplied
  /\ world = NoWorld /\ attempts = 0

\* Lines 37-41: the cell with index i is written.  An i32 addition that
\* overflows panics in a build with overflow checks and wraps in one without.
CellWritten(r, checked) ==
  /\ ret' = [op |-> "perlin2d", x |-> i % map_size, y |-> i \div map_size,
             panic |-> IF r.over /\ checked THEN "overflow" ELSE "none",
             val |-> r.val, over |-> r.over]
  /\ IF r.over /\ checked
     THEN pc' = "panicked" /\ UNCHANGED <<data, i>>
     ELSE /\ data' = [data EXCEPT ![i] = r.val]
          /\ i' = i + 1
          /\ pc' = "new"

NewCell ==
  /\ pc = "new"
  /\ i < map_size * map_size
  /\ \E checked \in BOOLEAN :
       CellWritten(Perlin2d(i % map_size, i \div map_size, args.frequency, args.seed),
                   checked)
  /\ UNCHANGED <<map_size, total, rng, pos, vel, sediment, age, map_cmds, vel_map,
                 moist_map, vel_map_cmds, call, prev, pre, n_norm, run, args,
                 first, outcome, used, applied>>
  /\ UNCHANGED scene

\* Line 43: new returns the map
NewReturn ==
  /\ pc = "new"
  /\ i = map_size * map_size
  /\ pc' = "idle"
  /\ UNCHANGED <<map_size, data, total, i, rng, pos, vel, sediment, age, map_cmds,
                 vel_map, moist_map, vel_map_cmds, ret, call, prev, pre, n_norm,
                 run, args, first, outcome, used, applied>>
  /\ UNCHANGED scene

NewNext == NewCell \/ NewReturn

NewSpec == NewInit /\ [][NewNext]_vars

\* ------------------------------------------------------------------------
\* TreasureSystem::run (scenes/island.rs), one action per update.  Positions
\* are in coordinate units, the player velocity and the opacity of a quad in
\* velocity units (hundredths).
\* ------------------------------------------------------------------------
MaxTreasure == 2

\* Where treasure entity k lies
TreasurePosition(k) == <<3 * PU * k, 3 * PU, PU>>

\* Camera positions an update can find: just above the first treasure, high
\* above it, beside the second treasure, and far from all
CameraPositions ==
  { <<3 * PU, 3 * PU, PU + 2>>, <<3 * PU, 3 * PU, 2 * PU>>,
    <<6 * PU, 3 * PU + 2, PU + 1>>, <<0, 0, PU>> }

\* Velocities of the player an update can find
PlayerVelocities == {<<0, 0>>, <<1, 0>>, <<0, -1>>, <<-1, 1>>}

\* length(to_treasure) < 3.0 * UNIT_PER_METER, that is 0.3
Near(to) ==
  100 * (to[1] * to[1] + to[2] * to[2] + to[3] * to[3]) < 9 * PU * PU

\* A flag that only tells whether the treasure is near now
FoundNow(treasure_map, to) == Near(to)

\* Lines 513-515: found is set when the treasure is near, and is never reset
Found(treasure_map, to) == treasure_map.found \/ Near(to)

\* player_moving_dir . to_treasure_dir, in hundredths: the normalized zero
\* vector is NaN
DirDot(v, to) ==
  IF to[1] * to[1] + to[2] * to[2] = 0 \/ v[1] * v[1] + v[2] * v[2] = 0 THEN NaN
  ELSE Round(VU * (v[1] * to[1] + v[2] * to[2]),
             ISqrt((v[1] * v[1] + v[2] * v[2]) * (to[1] * to[1] + to[2] * to[2])))

\* f32::clamp(0.2, 1.0): NaN stays NaN
Clamp(x) == IF IsNaN(x) THEN NaN ELSE IF x < VU \div 5 THEN VU \div 5 ELSE IF x > VU THEN VU ELSE x

\* Lines 517-529: the opacity of the quad of a map
Opacity(found, v, to) ==
  IF found THEN VU
  ELSE IF v[1] * v[1] + v[2] * v[2] < 1 THEN VU \div 5
  ELSE Clamp(DirDot(v, to))

\* Lines 506-530: the body of the loop for one treasure map and its quad
MapUpdated(w, k, camera, v) ==
  IF w.treasure_maps[k].treasure_entity \notin DOMAIN w.positions
  THEN [treasure_map |-> w.treasure_maps[k], quad |-> w.quads[k]]
  ELSE [treasure_map |->
          [w.treasure_maps[k] EXCEPT
             !.found = Found(w.treasure_maps[k],
                             VSub(w.positions[w.treasure_maps[k].treasure_entity], camera))],
        quad |->
          Opacity(Found(w.treasure_maps[k],
                        VSub(w.positions[w.treasure_maps[k].treasure_entity], camera)),
                  v,
                  VSub(w.positions[w.treasure_maps[k].treasure_entity], camera))]

\* The world when Island::new has built it: every treasure map is not found
\* and its quad is opaque; the treasure entities that have a position
TreasureInit ==
  /\ map_size = 0
  /\ data = <<>>
  /\ pc = "update"
  /\ total = 0 /\ i = 0 /\ rng = 0
  /\ pos = <<0, 0>> /\ vel = <<0, 0>> /\ sediment = 0 /\ age = 0
  /\ map_cmds = <<>> /\ vel_map_cmds = <<>>
  /\ vel_map = <<>> /\ moist_map = <<>>
  /\ ret = NoRet
  /\ call = "treasure_system" /\ prev = "none"
  /\ pre = <<>>
  /\ n_norm = 0 /\ run = 0
  /\ args = [intensity |-> 0, seed |-> 0]
  /\ first = [data |-> <<>>, flow |-> <<>>]
  /\ outcome = "none"
  /\ used = {}
  /\ applied = NoApplied
  /\ attempts = 0
  /\ \E placed \in SUBSET (1 .. MaxTreasure) :
       world = [NoWorld EXCEPT
                  !.positions = [k \in placed |-> TreasurePosition(k)],
                  !.treasure_maps = [k \in 1 .. MaxTreasure |->
                                       [treasure_entity |-> k, found |-> FALSE]],
                  !.quads = [k \in 1 .. MaxTreasure |-> VU]]

\* Lines 500-531: one run of the system, with the camera and the velocity of
\* the player it finds
TreasureSystemRun ==
  /\ pc = "update"
  /\ \E camera \in CameraPositions, v \in PlayerVelocities :
       world' = [world EXCEPT
                   !.camera = camera,
                   !.velocity = v,
                   !.treasure_maps = [k \in DOMAIN world.treasure_maps |->
                                        MapUpdated(world, k, camera, v).treasure_map],
                   !.quads = [k \in DOMAIN world.quads |->
                                MapUpdated(world, k, camera, v).quad]]
  /\ UNCHANGED <<map_size, data, pc, total, i, rng, pos, vel, sediment, age,
                 map_cmds, vel_map, moist_map, vel_map_cmds, ret, call, prev, pre,
                 n_norm, run, args, first, outcome, used, applied, attempts>>

TreasureNext == TreasureSystemRun

TreasureSpec == TreasureInit /\ [][TreasureNext]_vars

\* ------------------------------------------------------------------------
\* Island::new (scenes/island.rs): the placement loops for trees, treasure
\* and mobs, one action per candidate position.  The tiles are the grid of a
\* terrain of width MAP_SIZE, read cell by cell.
\* ------------------------------------------------------------------------
MAP_SIZE == 256

SCALE == MAP_SIZE \div 128

NUM_TREES == MAP_SIZE \div 4

NUM_TREASURE == MAP_SIZE \div 51

NUM_MOBS == MAP_SIZE

\* tiles[index] for the tiles of a terrain; an index past the end panics
TileAt(kind, index) ==
  TerrainHeight(kind, index % MAP_SIZE, index \div MAP_SIZE, MAP_SIZE)

\* get_z_scaled: SCALE * tiles[x + y * MAP_SIZE]
GetZScaled(kind, x, y) == SCALE * TileAt(kind, x + y * MAP_SIZE)

\* The triangle of the cell of (x, y) that the offset selects, as
\* get_z_scaled_interpolated and get_normal of island.rs build it
ScaledTriangle(kind, x, y) ==
  IF FLe(y - FFloor(y), PU - (x - FFloor(x)))
  THEN << <<FFloor(x), FFloor(y), GetZScaled(kind, AsUsize(FFloor(x)), AsUsize(FFloor(y)))>>,
          <<FFloor(x) + PU, FFloor(y),
            GetZScaled(kind, AsUsize(FFloor(x)) + 1, AsUsize(FFloor(y)))>>,
          <<FFloor(x), FFloor(y) + PU,
            GetZScaled(kind, AsUsize(FFloor(x)), AsUsize(FFloor(y)) + 1)>> >>
  ELSE << <<FFloor(x) + PU, FFloor(y),
            GetZScaled(kind, AsUsize(FFloor(x)) + 1, AsUsize(FFloor(y)))>>,
          <<FFloor(x) + PU, FFloor(y) + PU,
            GetZScaled(kind, AsUsize(FFloor(x)) + 1, AsUsize(FFloor(y)) + 1)>>,
          <<FFloor(x), FFloor(y) + PU,
            GetZScaled(kind, AsUsize(FFloor(x)), AsUsize(FFloor(y)) + 1)>> >>

\* The indices into tiles that the lookups for (x, y) use
TileIndices(x, y) ==
  IF FLe(y - FFloor(y), PU - (x - FFloor(x)))
  THEN { AsUsize(FFloor(x)) + AsUsize(FFloor(y)) * MAP_SIZE,
         AsUsize(FFloor(x)) + 1 + AsUsize(FFloor(y)) * MAP_SIZE,
         AsUsize(FFloor(x)) + (AsUsize(FFloor(y)) + 1) * MAP_SIZE }
  ELSE { AsUsize(FFloor(x)) + 1 + AsUsize(FFloor(y)) * MAP_SIZE,
         AsUsize(FFloor(x)) + 1 + (AsUsize(FFloor(y)) + 1) * MAP_SIZE,
         AsUsize(FFloor(x)) + (AsUsize(FFloor(y)) + 1) * MAP_SIZE }

ScaledHit(tri, x, y) ==
  Intersect(tri[1], tri[2], tri[3], <<x, y, RayHeight>>, <<0, 0, -PU>>)

\* get_z_scaled_interpolated
GetZScaledInterpolated(kind, x, y) ==
  IF ScaledHit(ScaledTriangle(kind, x, y), x, y).some
  THEN Ret(ScaledHit(ScaledTriangle(kind, x, y), x, y).point[3])
  ELSE Panic("unwrap")

ScaledNormal(tri) == TriNormal(tri[1], tri[2], tri[3])

\* get_dot_prod of island.rs: dot(get_normal, (0, 0, 1)), in hundredths
ScaledDotProd(kind, x, y) == ScaledNormal(ScaledTriangle(kind, x, y))[3]

\* rng.gen::<f32>() * (MAP_SIZE as f32 - 1.0): gen is in [0, 1), and the
\* largest product, 255 * (1 - 2^-24), rounds to the f32 below 255
GenCoord(r) == (r * (MAP_SIZE - 1) * PU) \div RngMod

\* The candidate position drawn from the generator in state r
Candidate(r) == <<GenCoord(RngNext(r)), GenCoord(RngNext(RngNext(r)))>>

\* A loop that never gives up
NeverExhausted(n) == FALSE

\* if attempts > 100 { break; }
Exhausted(n) == n > 100

\* height >= SCALE && dot_prod > 0.99
TreeFits(height, dot_prod) ==
  /\ FGe(height, SCALE * HU)
  /\ FGt(Abs(dot_prod) * 100, 99 * VU)

\* height >= 0.5 * SCALE && height <= 0.8 * SCALE
\*   && height / SCALE < 0.75 * dot_prod
TreasureFits(height, dot_prod) ==
  /\ FGe(height * 10, 5 * SCALE * HU)
  /\ FLe(height * 10, 8 * SCALE * HU)
  /\ FLt(height * 100 * VU, 75 * Abs(dot_prod) * SCALE * HU)

\* height >= 0.5 * SCALE
MobFits(height) == FGe(height * 10, 5 * SCALE * HU)

\* Terrains and generator states Island::new can start the loops with
IslandTerrains == {"flat", "plain"}

IslandRngs == {SeedFromU64(0), SeedFromU64(MaxSeed)}

IslandInit ==
  /\ map_size = MAP_SIZE
  /\ data = <<>>
  /\ pc = "trees"
  /\ total = NUM_TREES /\ i = 0
  /\ rng \in IslandRngs
  /\ pos = <<0, 0>> /\ vel = <<0, 0>> /\ sediment = 0 /\ age = 0
  /\ map_cmds = <<>> /\ vel_map_cmds = <<>>
  /\ vel_map = <<>> /\ moist_map = <<>>
  /\ ret = NoRet
  /\ call = "island" /\ prev = "none"
  /\ pre = <<>>
  /\ n_norm = 0 /\ run = 0
  /\ \E kind \in IslandTerrains : args = [tiles |-> kind]
  /\ first = [data |-> <<>>, flow |-> <<>>]
  /\ outcome = "none"
  /\ used = {}
  /\ applied = NoApplied
  /\ world = NoWorld
  /\ attempts = 0

\* The end of one pass through the body of a placement loop: the object is
\* created and the loop left, or the loop is left for its attempts, or it goes
\* round again
Attempted(fits, panicked, drawn, candidate, placed) ==
  /\ rng' = drawn
  /\ pos' = candidate
  /\ used' = TileIndices(candidate[1], candidate[2])
  /\ IF panicked
     THEN /\ pc' = "panicked"
          /\ UNCHANGED <<i, attempts, world, outcome>>
     ELSE IF fits
     THEN /\ world' = placed
          /\ outcome' = "placed"
          /\ i' = i + 1 /\ attempts' = 0 /\ pc' = pc
     ELSE IF Exhausted(attempts)
     THEN /\ outcome' = "gave_up"
          /\ i' = i + 1 /\ attempts' = 0 /\ pc' = pc
          /\ UNCHANGED world
     ELSE /\ attempts' = attempts + 1
          /\ UNCHANGED <<i, pc, world, outcome>>
  /\ UNCHANGED <<map_size, data, total, vel, sediment, age, map_cmds, vel_map,
                 moist_map, vel_map_cmds, ret, call, prev, pre, n_norm, run, args,
                 first, applied>>

\* Lines 743-779: one candidate for a tree
TreeAttempt ==
  /\ pc = "trees"
  /\ i < total
  /\ Attempted(
       TreeFits(GetZScaledInterpolated(args.tiles, Candidate(rng)[1], Candidate(rng)[2]).val,
                ScaledDotProd(args.tiles, Candidate(rng)[1], Candidate(rng)[2])),
       GetZScaledInterpolated(args.tiles, Candidate(rng)[1], Candidate(rng)[2]).panic # "none",
       RngNext(RngNext(RngNext(rng))),
       Candidate(rng),
       [world EXCEPT !.trees = @ + 1])

\* Lines 780-835: one candidate for a treasure and its map
TreasureAttempt ==
  /\ pc = "treasure"
  /\ i < total
  /\ Attempted(
       TreasureFits(GetZScaledInterpolated(args.tiles, Candidate(rng)[1], Candidate(rng)[2]).val,
                    ScaledDotProd(args.tiles, Candidate(rng)[1], Candidate(rng)[2])),
       GetZScaledInterpolated(args.tiles, Candidate(rng)[1], Candidate(rng)[2]).panic # "none",
       RngNext(RngNext(rng)),
       Candidate(rng),
       [world EXCEPT
          !.positions = Append(@, <<Candidate(rng)[1], Candidate(rng)[2],
                                    GetZScaledInterpolated(args.tiles, Candidate(rng)[1],
                                                           Candidate(rng)[2]).val>>),
          !.treasure_maps = Append(@, [treasure_entity |-> Len(world.positions) + 1,
                                       found |-> FALSE]),
          !.quads = Append(@, VU)])

\* Lines 836-877: one candidate for a mob
MobAttempt ==
  /\ pc = "mobs"
  /\ i < total
  /\ Attempted(
       MobFits(GetZScaledInterpolated(args.tiles, Candidate(rng)[1], Candidate(rng)[2]).val),
       GetZScaledInterpolated(args.tiles, Candidate(rng)[1], Candidate(rng)[2]).panic # "none",
       RngNext(RngNext(rng)),
       Candidate(rng),
       [world EXCEPT !.mobs = @ + 1])

\* The for loop over the objects of one kind is over: the next one starts
LoopsDone ==
  /\ pc \in {"trees", "treasure", "mobs"}
  /\ i = total
  /\ pc' = IF pc = "trees" THEN "treasure" ELSE IF pc = "treasure" THEN "mobs" ELSE "placed"
  /\ total' = IF pc = "trees" THEN NUM_TREASURE ELSE IF pc = "treasure" THEN NUM_MOBS ELSE 0
  /\ i' = 0
  /\ UNCHANGED <<map_size, data, rng, pos, vel, sediment, age, map_cmds, vel_map,
                 moist_map, vel_map_cmds, ret, call, prev, pre, n_norm, run, args,
                 first, outcome, used, applied, world, attempts>>

IslandNext == TreeAttempt \/ TreasureAttempt \/ MobAttempt \/ LoopsDone

IslandSpec == IslandInit /\ [][IslandNext]_vars

FEq(a, b) == ~IsNaN(a) /\ ~IsNaN(b) /\ a = b

\* A grid of numbers (no NaN cell) in which two cells differ
NonFlat(d) ==
  /\ \A k \in DOMAIN d : IsFinite(d[k])
  /\ \E j, k \in DOMAIN d : d[j] # d[k]

\* A grid of numbers in which all cells are equal
Flat(d) ==
  /\ \A k \in DOMAIN d : IsFinite(d[k])
  /\ \A j, k \in DOMAIN d : d[j] = d[k]

\* C2: after normalize on a grid whose heights are not all equal, every cell is
\* in [0, 1], every cell that held the minimum is exactly 0 and every cell that
\* held the maximum is exactly 1.
C2_NormalizeRange ==
  (call = "normalize" /\ NonFlat(pre)) =>
    /\ \A k \in DOMAIN data : IsFinite(data[k]) /\ 0 <= data[k] /\ data[k] <= HU
    /\ \A k \in DOMAIN data :
         /\ (\A j \in DOMAIN pre : pre[k] <= pre[j]) => data[k] = 0
         /\ (\A j \in DOMAIN pre : pre[k] >= pre[j]) => data[k] = HU

\* normalize has run on a grid that was not all equal and whose range was not
\* already [0, 1], and left a cell strictly between 0 and 1
C2_Witness ==
  /\ call = "normalize" /\ NonFlat(pre)
  /\ data # pre
  /\ \E k \in DOMAIN data : 0 < data[k] /\ data[k] < HU

\* C3: normalize on a grid in which all heights are equal leaves every cell at
\* one finite constant, never NaN.
C3_FlatNormalizeDefined ==
  (call = "normalize" /\ Flat(pre)) =>
    /\ \A k \in DOMAIN data : IsFinite(data[k])
    /\ \A j, k \in DOMAIN data : data[j] = data[k]

\* C4: normalize is idempotent: after two calls of normalize in a row the grid
\* is equal, cell by cell, to the grid after the first call.
C4_NormalizeIdempotent ==
  (call = "normalize" /\ prev = "normalize") =>
    \A k \in DOMAIN data : FEq(data[k], pre[k])

\* C5: during erode every index used to read or write the height grid, the
\* velocity map and the flow map is below width * width: the guard stops the
\* step loop before an index past the end is used.
C5_IndexSafety ==
  /\ \A k \in used : 0 <= k /\ k < map_size * map_size
  /\ ret.panic # "index"

\* A step has used the last cell of the grid as its far corner
C5_Witness ==
  /\ call = "erode"
  /\ (map_size * map_size - 1) \in used
  /\ map_size >= 4

\* C6: every particle terminates: its step loop makes at most width / 4 passes
\* and ends out of bounds, at the step limit or at the boundary guard, and
\* erode goes on to return.
C6_ParticleTerminates ==
  call = "erode" =>
    /\ pc # "panicked"
    /\ age <= map_size \div 4
    /\ pc = "apply" => outcome \in {"oob", "limit", "guard"}

\* The cells (x, y), (x+1, y), (x, y+1), (x+1, y+1) of the grid around the
\* cell with index idx, where x+1 and y+1 are columns and rows of the grid
Neighbours(idx, w) ==
  LET x == idx % w
      y == idx \div w
  IN  {xx + yy * w : xx \in {x, x + 1} \cap (0 .. w - 1), yy \in {y, y + 1} \cap (0 .. w - 1)}

\* C7: mass locality: the height change of one particle step modifies only the
\* four cells around the particle's position before the move, and no cell of
\* another row in their place.
C7_MassLocality == applied.changed \subseteq Neighbours(applied.idx, map_size)

\* A coordinate outside the grid: negative, or at or past width - 1, where a
\* corner of its cell lies past the last row or column
Outside(c, w) == ~IsNaN(c) /\ (c < 0 \/ c >= (w - 1) * PU)

\* The zero a query returns as its fallback
ZeroOf(op) == IF op = "get_normal" THEN <<0, 0, 0>> ELSE 0

\* C8: a height or normal query at a coordinate outside the grid returns zero
\* and does not panic.
C8_OutsideReturnsZero ==
  ( /\ ret.op \in {"get_z_interpolated", "get_normal"}
    /\ ~IsNaN(ret.x) /\ ~IsNaN(ret.y)
    /\ (Outside(ret.x, map_size) \/ Outside(ret.y, map_size)) )
  => (ret.panic = "none" /\ ret.val = ZeroOf(ret.op))

\* C9: a query called with a NaN x or a NaN y returns zero: it neither panics
\* nor returns NaN.
C9_NaNReturnsZero ==
  ( /\ ret.op \in {"get_z_interpolated", "get_normal", "get_dot_prod"}
    /\ (IsNaN(ret.x) \/ IsNaN(ret.y)) )
  => (ret.panic = "none" /\ ret.val = ZeroOf(ret.op))

\* C10: erode with an intensity for which floor(width * intensity) is 0 leaves
\* every cell of the height grid unchanged and returns a flow map that is zero
\* in every cell.
C10_NoParticlesNoChange ==
  ( /\ ret.op = "erode" /\ ret.panic = "none"
    /\ (map_size * args.intensity) \div IntensityDen = 0 )
  => /\ data = pre
     /\ DOMAIN ret.val = 0 .. (map_size * map_size - 1)
     /\ \A k \in DOMAIN ret.val : ret.val[k] = 0

\* erode has returned from a call with a positive intensity that gives no
\* particle, on a grid on which a particle would have changed heights
C10_Witness ==
  /\ ret.op = "erode" /\ ret.panic = "none"
  /\ args.intensity > 0
  /\ (map_size * args.intensity) \div IntensityDen = 0
  /\ NonFlat(data)

\* C11: the grid size is fixed: the height grid has width * width cells after
\* construction and after every erode and normalize call, and the flow map
\* that erode builds and returns has as many cells.
C11_GridSizeFixed ==
  /\ DOMAIN data = 0 .. (map_size * map_size - 1)
  /\ pc \in {"particle", "step", "apply"}
       => DOMAIN moist_map = 0 .. (map_size * map_size - 1)
  /\ (ret.op = "erode" /\ ret.panic = "none")
       => DOMAIN ret.val = 0 .. (map_size * map_size - 1)

\* erode has returned after a normalize call and has changed heights
C11_Witness ==
  /\ ret.op = "erode" /\ ret.panic = "none"
  /\ prev = "normalize"
  /\ data # pre

\* The sum of the cells lo .. hi of a grid (by halves)
RECURSIVE SumOver(_, _, _)
SumOver(d, lo, hi) ==
  IF lo > hi THEN 0
  ELSE IF lo = hi THEN d[lo]
  ELSE SumOver(d, lo, (lo + hi) \div 2) + SumOver(d, (lo + hi) \div 2 + 1, hi)

\* The sum of all heights of a grid
Mass(d) == SumOver(d, 0, map_size * map_size - 1)

AllFinite(d) == \A k \in DOMAIN d : IsFinite(d[k])

\* What the rounding of the four weighted terms of one applied change can add
\* to or take from the sum of the grid (half a unit per term)
ApplySlack == Cardinality(Corners(0, 2)) \div 2

\* C12: mass is conserved over the life of a particle: when the first particle
\* of an erode call has ended at its step limit and its height changes have
\* been applied, the sum of the grid heights is what it was before the
\* particle (up to the rounding of the applied changes).
C12_MassConservedOverLife ==
  ( /\ call = "erode" /\ pc = "apply" /\ outcome = "limit"
    /\ i = 0 /\ map_cmds = <<>>
    /\ AllFinite(pre) )
  => Abs(Mass(data) - Mass(pre)) <= ApplySlack * (map_size \div 4)

\* C13: noise values are bounded: every value written by new lies in [0, 1].
C13_NoiseInUnitRange ==
  (call = "new" /\ pc \in {"new", "idle"}) =>
    \A k \in DOMAIN data : k < i => (0 <= data[k] /\ data[k] <= HU)

\* C14: noise generation has no failure mode: no i32 addition of noise2 or
\* noise2d overflows, and a value is returned for every cell.
C14_NoiseNoFailure ==
  /\ pc # "panicked"
  /\ ret.op = "perlin2d" => ~ret.over

\* The last pass through the step loop got past the guard and computed a
\* velocity of zero
Stalled ==
  /\ call = "erode" /\ pc \in {"step", "apply", "panicked"}
  /\ used # {}
  /\ vel = <<0, 0>>

\* C15: a particle whose velocity is zero when the step direction is computed
\* is treated as stalled: it ends without a panic and without its position
\* becoming NaN.
C15_StalledParticleEnds ==
  Stalled => (pc # "panicked" /\ ~IsNaN(pos[1]) /\ ~IsNaN(pos[2]))

\* C16: when the position after a move is outside the open interior of the
\* map, the particle ends at once: that pass records no height change and does
\* not increment the flow map.
C16_OutOfMapEndsParticle ==
  [][(pc = "step" /\ pos' # pos /\ OutOfMap(pos', map_size))
       => /\ pc' = "apply" /\ outcome' = "oob"
          /\ map_cmds' = map_cmds
          /\ moist_map' = moist_map
          /\ sediment' = sediment
          /\ data' = data]_vars

C16_Witness ==
  /\ call = "erode" /\ pc = "apply" /\ outcome = "oob"
  /\ OutOfMap(pos, map_size)
  /\ age >= 1 /\ Len(map_cmds) = age

\* The position at which the running particle was spawned: the cell and the
\* offset of the first height change it recorded
SpawnPos ==
  << (map_cmds[1].idx % map_size) * PU + map_cmds[1].offset[1],
     (map_cmds[1].idx \div map_size) * PU + map_cmds[1].offset[2] >>

\* The sea-level threshold, a height of 0.5
SeaLevel == HU \div 2

\* C17: a particle is only simulated on land.  A particle that is inside its
\* step loop and has recorded a height change (the grid is not touched until
\* its loop ends) was spawned at a height of at least the sea level.
C17_SimulatedOnLandOnly ==
  (call = "erode" /\ pc = "step" /\ age >= 1 /\ Len(map_cmds) = age)
  => FGe(GetZInterpolated(data, map_size, SpawnPos[1], SpawnPos[2]).val, SeaLevel)

\* The sum of the recorded height changes that are not applied yet
RECURSIVE SumAmt(_)
SumAmt(cmds) == IF cmds = <<>> THEN 0 ELSE Head(cmds).amt + SumAmt(Tail(cmds))

\* The grid, counting the recorded changes, plus what the particle carries
Balance == Mass(data) + SumAmt(map_cmds) + sediment

BalanceDefined ==
  /\ AllFinite(data)
  /\ IsFinite(sediment)
  /\ \A k \in DOMAIN map_cmds : IsFinite(map_cmds[k].amt)

\* C18: per-step mass balance.  The height change of a pass is taken from the
\* sediment and recorded, and when it is applied the four weighted terms add
\* up to it (up to their rounding): the sum of the grid heights, counting the
\* recorded changes, plus the sediment of the particle is the same before and
\* after every pass and every applied change.
C18_StepMassBalance ==
  [][(call = "erode" /\ pc \in {"step", "apply"} /\ BalanceDefined /\ BalanceDefined')
       => /\ Abs(Balance' - Balance) <= ApplySlack
          /\ pc = "step" => (data' = data /\ SumAmt(map_cmds') + sediment' = SumAmt(map_cmds) + sediment)]_vars

C18_Witness ==
  /\ call = "erode" /\ pc = "apply" /\ i = 0 /\ BalanceDefined
  /\ age >= 1 /\ sediment > 0
  /\ Len(map_cmds) < age
  /\ applied.amt < 0 /\ Cardinality(applied.changed) > 1
  /\ Abs(Balance - Mass(pre)) <= ApplySlack * age

\* The position of the particle before the last pass it completed: the cell
\* and the offset of the height change that pass recorded
LastPos ==
  << (map_cmds[Len(map_cmds)].idx % map_size) * PU + map_cmds[Len(map_cmds)].offset[1],
     (map_cmds[Len(map_cmds)].idx \div map_size) * PU + map_cmds[Len(map_cmds)].offset[2] >>

\* old_height and new_height of the last completed pass (the grid is not
\* touched while the particle is inside its step loop)
LastOldHeight == GetZInterpolated(data, map_size, LastPos[1], LastPos[2]).val

LastNewHeight == GetZInterpolated(data, map_size, pos[1], pos[2]).val

\* The last pass ran to its end and nothing has been applied since
PassCompleted ==
  /\ call = "erode" /\ age >= 1 /\ Len(map_cmds) = age
  /\ pc = "step" \/ (pc = "apply" /\ outcome = "limit")

\* C19: in the erode branch the material removed by a pass never exceeds the
\* downhill height gap |new_height - old_height| of that pass.
C19_ErosionWithinGap ==
  (PassCompleted /\ map_cmds[Len(map_cmds)].amt < 0)
  => -(map_cmds[Len(map_cmds)].amt) <= Abs(FSub(LastNewHeight, LastOldHeight))

\* What the last completed pass put down, and what the particle carried
\* before it
LastDeposit == map_cmds[Len(map_cmds)].amt

SedimentBefore == sediment + LastDeposit

\* The last completed pass took the deposit branch: the particle moved uphill
\* or carried more than its capacity
DepositBranch ==
  /\ PassCompleted
  /\ FGt(LastNewHeight, LastOldHeight) \/ SedimentBefore > SedimentCapacity

\* C20: in the deposit branch the deposited amount is not negative and is at
\* most the lesser of the capacity excess and the uphill height gap; it is
\* never above new_height - old_height when the particle moves uphill and
\* never above the sediment the particle carries.
C20_DepositBounded ==
  DepositBranch
  => /\ LastDeposit >= 0
     /\ LastDeposit <= SedimentBefore
     /\ FGt(LastNewHeight, LastOldHeight)
          => /\ LastDeposit <= FSub(LastNewHeight, LastOldHeight)
             /\ LastDeposit <= F32Max(SedimentBefore - SedimentCapacity, 0)

\* The cell the particle is in
CellOf(p) == <<FFloor(p[1]) \div PU, FFloor(p[2]) \div PU>>

\* The in-bounds cells among the 8 around cell (x, y)
Around(x, y, w) ==
  {<<xx, yy>> \in ((x - 1) .. (x + 1)) \X ((y - 1) .. (y + 1)) :
     /\ <<xx, yy>> # <<x, y>>
     /\ xx \in 0 .. (w - 1) /\ yy \in 0 .. (w - 1)}

\* A talus threshold: a sixteenth of the height range
Talus == HU \div 16

\* C21: every completed pass is followed by a cascading pass centred on the
\* new position of the particle, which moves half of the excess over the talus
\* threshold between the cell and each neighbour, the highest neighbour last.
\* So when a pass has completed, the cell of the particle is within the
\* threshold of at least one of its neighbours.
C21_CascadeAfterStep ==
  (PassCompleted /\ pc = "step" /\ AllFinite(data))
  => \E n \in Around(CellOf(pos)[1], CellOf(pos)[2], map_size) :
       Abs(data[n[1] + n[2] * map_size]
           - data[CellOf(pos)[1] + CellOf(pos)[2] * map_size]) <= Talus

\* What the first pass of the running particle added to the flow map: its
\* total_sediment_changed, from the speed it had (the first particle of a call
\* finds a velocity map of zeros, so its speed is the length of the velocity
\* the pass recorded) and the erosion_ease at its spawn position
FirstFlow ==
  TotalSedimentChanged(
    Length2(vel_map_cmds[1].amt),
    ErosionEase(Length2(<<GetNormal(data, map_size, SpawnPos[1], SpawnPos[2]).val[1],
                          GetNormal(data, map_size, SpawnPos[1], SpawnPos[2]).val[2]>>)))

\* C22: at every completed pass the flow map is increased at the four cells
\* that receive the height change, by the water volume of the particle in
\* total.  The volume of a particle does not grow, so the second pass of a
\* particle adds no more to the flow map than its first pass did (up to the
\* rounding of the weighted terms).
C22_FlowIsVolume ==
  ( /\ PassCompleted /\ i = 0 /\ age = 1 + 1
    /\ AllFinite(data) /\ AllFinite(moist_map) /\ IsFinite(FirstFlow) )
  => Mass(moist_map) - FirstFlow <= FirstFlow + ApplySlack * age

RECURSIVE Draws(_, _)
Draws(r, n) == IF n = 0 THEN r ELSE RngNext(Draws(r, n - 1))

\* C24: the generator is seeded once per erode call and every particle takes
\* two draws from it, however the particles before it ended: at the head of
\* the loop for particle i the generator has made 2i draws since it was
\* seeded, and the spawn position of particle i is made of draws 2i+1 and
\* 2i+2, scaled by the width.
C24_SpawnFromSeedOnly ==
  /\ (call = "erode" /\ pc = "particle") => rng = Draws(SeedFromU64(args.seed), 2 * i)
  /\ (call = "erode" /\ pc = "step" /\ age = 0)
       => /\ rng = Draws(SeedFromU64(args.seed), 2 * i + 2)
          /\ pos = << GenRange(Draws(SeedFromU64(args.seed), 2 * i + 1), map_size),
                      GenRange(Draws(SeedFromU64(args.seed), 2 * i + 2), map_size) >>

C24_Witness ==
  /\ call = "erode" /\ pc = "step" /\ age = 0
  /\ i >= 1 /\ outcome = "none"
  /\ data # pre
  /\ pos = << GenRange(Draws(SeedFromU64(args.seed), 2 * i + 1), map_size),
              GenRange(Draws(SeedFromU64(args.seed), 2 * i + 2), map_size) >>

\* C25: erode simulates floor(width * intensity) particles, none when
\* width * intensity < 1: the particle count of a call is that floor, the
\* particles simulated are those with an index below it, and a call that
\* returns has simulated every one of them.
C25_ParticleCount ==
  (call = "erode" /\ (pc # "idle" \/ ret.op = "erode"))
  => /\ total * IntensityDen <= map_size * args.intensity
     /\ map_size * args.intensity < (total + 1) * IntensityDen
     /\ i <= total
     /\ pc \in {"step", "apply"} => i < total
     /\ (ret.op = "erode" /\ ret.panic = "none") => i = total

C25_Witness ==
  /\ ret.op = "erode" /\ ret.panic = "none"
  /\ i = total /\ total >= 2
  /\ map_size * args.intensity > total * IntensityDen

CornerHeights(x, y) ==
  {Triangle(data, map_size, x, y)[k][3] : k \in 1 .. 3}

\* x + 1 is a column (y + 1 a row) of the grid
InsideCell(c, w) == ~IsNaN(c) /\ 0 <= c /\ c + PU <= (w - 1) * PU

\* C28: interpolation agrees with the grid: at a whole coordinate inside the
\* grid get_z_interpolated returns get_z of it, and at every coordinate inside
\* a cell what it returns lies between the lowest and the highest of the three
\* corners of the triangle chosen by y_offset <= 1 - x_offset.
C28_InterpolationAgrees ==
  ( /\ ret.op = "get_z_interpolated" /\ ret.panic = "none"
    /\ InsideCell(ret.x, map_size) /\ InsideCell(ret.y, map_size)
    /\ AllFinite(data) )
  => /\ (ret.x % PU = 0 /\ ret.y % PU = 0)
          => ret.val = GetZ(data, map_size, ret.x \div PU, ret.y \div PU)
     /\ \E lo \in CornerHeights(ret.x, ret.y) : lo <= ret.val
     /\ \E hi \in CornerHeights(ret.x, ret.y) : ret.val <= hi

\* C29: the found flag of a treasure map is monotone: over any sequence of
\* updates a map that is found stays found, and an update that finds the
\* treasure entity of a found map with a position leaves the quad of the map
\* with opacity 1.0.
C29_FoundMonotone ==
  [][\A k \in DOMAIN world.treasure_maps :
       /\ world.treasure_maps[k].found => world'.treasure_maps[k].found
       /\ ( /\ TreasureSystemRun
            /\ world.treasure_maps[k].found
            /\ world.treasure_maps[k].treasure_entity \in DOMAIN world.positions )
          => world'.quads[k] = VU]_vars

\* The last update found the camera away from a treasure that was found
\* before, and the player standing still
C29_Witness ==
  /\ call = "treasure_system"
  /\ world.velocity = <<0, 0>>
  /\ \E k \in DOMAIN world.treasure_maps :
       /\ world.treasure_maps[k].found
       /\ k \in DOMAIN world.positions
       /\ ~Near(VSub(world.positions[k], world.camera))
       /\ world.quads[k] = VU
  /\ \E k \in DOMAIN world.treasure_maps :
       ~world.treasure_maps[k].found /\ world.quads[k] = VU \div 5

\* C30: every placement loop ends after at most 102 candidate positions and
\* creates at most one object, and every candidate coordinate lies in
\* [0, MAP_SIZE - 1), so the lookups made for it index cells of the grid only.
C30_PlacementBounded ==
  call = "island"
  => /\ attempts <= 101
     /\ world.trees <= (IF pc = "trees" THEN i ELSE NUM_TREES)
     /\ Len(world.treasure_maps)
          <= (IF pc = "trees" THEN 0 ELSE IF pc = "treasure" THEN i ELSE NUM_TREASURE)
     /\ Len(world.positions) = Len(world.treasure_maps)
     /\ world.mobs
          <= (IF pc \in {"trees", "treasure"} THEN 0 ELSE IF pc = "mobs" THEN i ELSE NUM_MOBS)
     /\ pc # "panicked"
     /\ 0 <= pos[1] /\ pos[1] < (MAP_SIZE - 1) * PU
     /\ 0 <= pos[2] /\ pos[2] < (MAP_SIZE - 1) * PU
     /\ \A k \in used :
          /\ 0 <= k /\ k < MAP_SIZE * MAP_SIZE
          /\ k % MAP_SIZE \in {pos[1] \div PU, pos[1] \div PU + 1}
          /\ k \div MAP_SIZE \in {pos[2] \div PU, pos[2] \div PU + 1}

\* All the tree loops gave up after their 102 candidates, the last one in the
\* last cell of a row, and a treasure loop has placed its treasure
C30_Witness ==
  /\ call = "island" /\ pc = "treasure"
  /\ world.trees = 0
  /\ i >= 1 /\ Len(world.treasure_maps) = i
  /\ outcome = "placed"

=============================================================================
